---- MODULE Spec2Model ----
(***************************************************************************)
(* Model of the in-memory vector search core: TopNCollection (a bounded    *)
(* min-heap with a sentinel at index 0) and VectorizedList (parallel item  *)
(* and embedding arrays with linear-scan queries).                         *)
(*                                                                         *)
(* JavaScript arrays are modelled as sequences whose TLA+ index is the JS  *)
(* index plus one.  Array elements are references to objects: a reference  *)
(* is an index into the object store `objs`, and 0 is `undefined`.         *)
(* Reading a property of `undefined` throws a TypeError, which ends the    *)
(* running method and leaves the assignments made so far in place.         *)
(*                                                                         *)
(* Scores are integers.  Number.MIN_VALUE is the smallest POSITIVE double, *)
(* so it is modelled as the smallest positive score, 1.                    *)
(***************************************************************************)
EXTENDS Integers, Sequences, FiniteSets, Bags, TLC

\* ---------------------------------------------------------------- bounds
MaxCap == 3
MaxAdds == 5
MaxScoreIn == 0
MaxItems == 3
NumEmb == 3
\* The largest component, in fifths, of an embedding given to normalize
MaxComp == 2
\* EventHistory: append calls made, largest trim count, distinct payloads
MaxAppends == 4
MaxTrim == 3
NumData == 1
\* Chat: runCompletion calls made on the one ChatBot
NumCalls == 2

\* ------------------------------------------------------- program constants
MIN_VALUE == 1

Undefined == 0
NoValue == 0
NoErr == "none"
TypeError == "TypeError"
ArgumentException == "ArgumentException"
InvalidArgument == "InvalidArgument"

\* Fixed point: vector components are counted in fifths and scores in
\* twenty-fifths, so that the unit vectors used below and their dot products
\* are exact.  A score of 1.0 is One.
Unit == 5
One == Unit * Unit

Scores == (-1)..MaxScoreIn

VARIABLES
    items,      \* TopNCollection._items: sequence of object references
    count,      \* TopNCollection._count
    maxCount,   \* TopNCollection._maxCount
    objs,       \* the IScoredValue objects allocated so far: [value, score]
    added,      \* log: the (value, score) arguments of the add calls made
    called,     \* log: which of sortDescending / clear have been called
    last,       \* log: the last call, its arguments and how it ended
    prev,       \* log: the fields and `called` just before the last call
    listItems,  \* VectorizedList._items
    embeddings, \* VectorizedList._embeddings: references into emb
    emb,        \* the Embedding objects: components and _normalized
    vlast,      \* log: the last VectorizedList call, its arguments and result
    gen,        \* the generator object returned by the last similar() call;
                \* gen.dirty logs an add to the list made since that call
    yielded,    \* log: what that generator has yielded so far
    history,    \* EventHistory._history: sequence of events
    seqNumber,  \* EventHistory._seqNumber
    appended,   \* log: every event ever appended, in order
    hlast,      \* log: the last EventHistory call and _history before it
    hgen,       \* the generator object returned by the last allEvents()
                \* call, with what it has yielded so far
    settings,   \* ChatBot._settings: is there an embeddingGenerator
    calls       \* the runCompletion calls: where each one is suspended
                \* (pc), what getResponse gave it (resp) and the log of
                \* the stages it has entered (trace)

heapVars == <<items, count, maxCount, objs, added, called, last, prev>>
listVars == <<listItems, embeddings, emb, vlast>>
genVars == <<gen, yielded>>
histVars == <<history, seqNumber, appended, hlast, hgen>>
callVars == <<settings, calls>>
chatVars == <<histVars, callVars>>
vars == <<heapVars, listVars, genVars, chatVars>>

\* ------------------------------------------------------ JS array helpers
\* this._items[j]: undefined when j is outside the array
Ref(arr, j) == IF j >= 0 /\ j + 1 <= Len(arr) THEN arr[j + 1] ELSE Undefined

\* this._items[j] = r: an assignment past the end grows the array with holes
SetAt(arr, j, r) ==
    [k \in 1..(IF j + 1 > Len(arr) THEN j + 1 ELSE Len(arr)) |->
        IF k = j + 1 THEN r
        ELSE IF k <= Len(arr) THEN arr[k] ELSE Undefined]

\* A collection in the middle of a method: its fields and the pending error
Heap(it, c, mc, o) ==
    [items |-> it, count |-> c, maxCount |-> mc, objs |-> o, err |-> NoErr]

Throw(h, e) == [h EXCEPT !.err = e]

ScoreOf(h, r) == h.objs[r].score

\* ------------------------------------------------------------ constructor
NewTopN(mc, o) ==
    Heap(<<Len(o) + 1>>, 0, mc,
         Append(o, [value |-> NoValue, score |-> MIN_VALUE]))

\* ---------------------------------------------------------------- upHeap
RECURSIVE upHeapLoop(_, _, _)
upHeapLoop(h, i, item) ==
    LET parent == i \div 2 IN
    IF parent > 0
    THEN IF Ref(h.items, parent) = Undefined \/ item = Undefined
         THEN Throw(h, TypeError)
         ELSE IF ScoreOf(h, Ref(h.items, parent)) > ScoreOf(h, item)
              THEN upHeapLoop(
                     [h EXCEPT !.items = SetAt(@, i, Ref(h.items, parent))],
                     parent, item)
              ELSE [h EXCEPT !.items = SetAt(@, i, item)]
    ELSE [h EXCEPT !.items = SetAt(@, i, item)]

\* mutant: the new node is left where it was put
upHeapNoSift(h, startAt) == h

upHeap(h, startAt) == upHeapLoop(h, startAt, Ref(h.items, startAt))

\* -------------------------------------------------------------- downHeap
RECURSIVE downHeapLoop(_, _, _)
downHeapLoop(h, i, item) ==
    LET maxParent == h.count \div 2
        left == i + i
    IN
    IF i <= maxParent
    THEN IF Ref(h.items, left) = Undefined
         THEN Throw(h, TypeError)
         ELSE IF left < h.count /\ Ref(h.items, left + 1) = Undefined
         THEN Throw(h, TypeError)
         ELSE LET iChild ==
                    IF left < h.count
                       /\ ScoreOf(h, Ref(h.items, left))
                            > ScoreOf(h, Ref(h.items, left + 1))
                    THEN left + 1 ELSE left
                  childScore == ScoreOf(h, Ref(h.items, iChild))
              IN IF item = Undefined
                 THEN Throw(h, TypeError)
                 ELSE IF ScoreOf(h, item) <= childScore
                 THEN [h EXCEPT !.items = SetAt(@, i, item)]
                 ELSE downHeapLoop(
                        [h EXCEPT !.items = SetAt(@, i, Ref(h.items, iChild))],
                        iChild, item)
    ELSE [h EXCEPT !.items = SetAt(@, i, item)]

downHeap(h, startAt) == downHeapLoop(h, startAt, Ref(h.items, startAt))

\* ------------------------------------------------------------- removeTop
\* mutant: the last pair is moved to the top and not sifted down
removeTopNoSift(h) ==
    IF h.count = 0
    THEN [h |-> Throw(h, ArgumentException), ret |-> Undefined]
    ELSE [h |-> [h EXCEPT !.items = SetAt(@, 1, Ref(h.items, h.count)),
                          !.count = @ - 1],
          ret |-> Ref(h.items, 1)]

\* The result carries the collection after the call and the returned item.
removeTop(h) ==
    IF h.count = 0
    THEN [h |-> Throw(h, ArgumentException), ret |-> Undefined]
    ELSE LET item == Ref(h.items, 1)
             h1 == [h EXCEPT !.items = SetAt(@, 1, Ref(h.items, h.count)),
                             !.count = @ - 1]
         IN [h |-> downHeap(h1, 1), ret |-> item]

\* ------------------------------------------------------------------- add
addPush(h, value, score) ==
    LET id == Len(h.objs) + 1 IN
    [h EXCEPT !.count = @ + 1,
              !.objs = Append(@, [value |-> value, score |-> score]),
              !.items = Append(@, id)]

addReplace(h, value, score) ==
    LET r == removeTop(h) IN
    IF r.h.err # NoErr THEN r.h
    ELSE IF r.ret = Undefined THEN Throw(r.h, TypeError)
    ELSE LET h1 == [r.h EXCEPT
                      !.objs[r.ret] = [value |-> value, score |-> score],
                      !.count = @ + 1]
         IN upHeap([h1 EXCEPT !.items = SetAt(@, h1.count, r.ret)], h1.count)

\* mutant: at capacity the newcomer always replaces the top
addNoReject(h, value, score) ==
    IF h.count = h.maxCount
    THEN IF Ref(h.items, 1) = Undefined
         THEN Throw(h, TypeError)
         ELSE addReplace(h, value, score)
    ELSE LET h1 == addPush(h, value, score) IN upHeap(h1, h1.count)

\* mutant: a rejected candidate still removes the top
addRejectDrops(h, value, score) ==
    IF h.count = h.maxCount
    THEN IF Ref(h.items, 1) = Undefined
         THEN Throw(h, TypeError)
         ELSE IF score < ScoreOf(h, Ref(h.items, 1))
         THEN removeTop(h).h
         ELSE addReplace(h, value, score)
    ELSE LET h1 == addPush(h, value, score) IN upHeap(h1, h1.count)

\* mutant: at capacity the newcomer overwrites the last position
addReplaceLast(h, value, score) ==
    IF h.count = h.maxCount
    THEN IF Ref(h.items, 1) = Undefined
         THEN Throw(h, TypeError)
         ELSE IF score < ScoreOf(h, Ref(h.items, 1))
         THEN h
         ELSE LET r == Ref(h.items, h.count)
                  h1 == [h EXCEPT !.objs[r] = [value |-> value,
                                               score |-> score]]
              IN upHeap(h1, h1.count)
    ELSE LET h1 == addPush(h, value, score) IN upHeap(h1, h1.count)

\* mutant: at capacity a score equal to the top's is rejected too
addRejectTies(h, value, score) ==
    IF h.count = h.maxCount
    THEN IF Ref(h.items, 1) = Undefined
         THEN Throw(h, TypeError)
         ELSE IF score <= ScoreOf(h, Ref(h.items, 1))
         THEN h
         ELSE addReplace(h, value, score)
    ELSE LET h1 == addPush(h, value, score) IN upHeap(h1, h1.count)

add(h, value, score) ==
    IF h.count = h.maxCount
    THEN IF Ref(h.items, 1) = Undefined
         THEN Throw(h, TypeError)
         ELSE IF score < ScoreOf(h, Ref(h.items, 1))
         THEN h
         ELSE addReplace(h, value, score)
    ELSE LET h1 == addPush(h, value, score) IN upHeap(h1, h1.count)

\* ----------------------------------------------------------------- clear
clear(h) == [h EXCEPT !.items = SubSeq(@, 1, 1)]

\* -------------------------------------------------------- sortDescending
RECURSIVE sortLoop(_, _)
sortLoop(h, i) ==
    IF h.count > 0
    THEN LET r == removeTop(h) IN
         IF r.h.err # NoErr THEN r.h
         ELSE sortLoop([r.h EXCEPT !.items = SetAt(@, i, r.ret)], i - 1)
    ELSE h

\* mutant: an empty collection is refused, as removeTop refuses it
sortDescendingThrowsOnEmpty(h) ==
    IF h.count = 0
    THEN Throw(h, ArgumentException)
    ELSE LET h1 == sortLoop(h, h.count) IN
         IF h1.err # NoErr THEN h1 ELSE [h1 EXCEPT !.count = h.count]

sortDescending(h) ==
    LET h1 == sortLoop(h, h.count) IN
    IF h1.err # NoErr THEN h1 ELSE [h1 EXCEPT !.count = h.count]

\* ------------------------------------------------------------ vectormath
\* The raw vectors the callers hold, in fifths
RawVectors ==
    <<[x |-> 10, y |-> 0], [x |-> 0, y |-> 5], [x |-> -6, y |-> 8],
      [x |-> 4, y |-> 3], [x |-> 8, y |-> -6]>>

EmbIds == 1..NumEmb

\* sqrt, exact on the vectors above
ISqrt(n) ==
    CHOOSE r \in 0..(1 + n \div 2) : r * r <= n /\ (r + 1) * (r + 1) > n

euclideanLength32(v) == ISqrt(v.x * v.x + v.y * v.y)

dot32(a, b) == a.x * b.x + a.y * b.y

cosineSimilarity32(a, b) ==
    (One * dot32(a, b)) \div (euclideanLength32(a) * euclideanLength32(b))

normalize32(v) ==
    LET len == euclideanLength32(v) IN
    [v EXCEPT !.x = (Unit * @) \div len, !.y = (Unit * @) \div len]

\* ------------------------------------------------------------- Embedding
NewEmbedding(vector) == [x |-> vector.x, y |-> vector.y, normalized |-> FALSE]

cosineSimilarity(this, other) ==
    IF this.normalized /\ other.normalized
    THEN dot32(this, other)
    ELSE cosineSimilarity32(this, other)

isNormalized(this) == this.normalized

\* 1.0 is Unit fifths
euclideanLength(this) ==
    IF this.normalized
    THEN Unit
    ELSE euclideanLength32(this)

\* mutant: the vector is scaled again on every call
normalizeAlways(this) == [normalize32(this) EXCEPT !.normalized = TRUE]

\* mutant: the vector is scaled but the flag is never set
normalizeNoFlag(this) ==
    IF ~this.normalized
    THEN normalize32(this)
    ELSE this

normalize(this) ==
    IF ~this.normalized
    THEN [normalize32(this) EXCEPT !.normalized = TRUE]
    ELSE this

\* -------------------------------------------------------- VectorizedList
\* Validator.exists
exists(value) == value # Undefined

\* an optional argument of a call
Arg(v) == [given |-> TRUE, value |-> v]
Omitted == [given |-> FALSE, value |-> 0]
OrDefault(arg, default) == IF arg.given THEN arg.value ELSE default

\* this._embeddings[i].cosineSimilarity(other)
ScoreOfIndex(i, other) ==
    cosineSimilarity(emb[embeddings[i + 1]], emb[other])

RECURSIVE nearestLoop(_, _, _, _)
nearestLoop(other, i, bestScore, iNearest) ==
    IF i < Len(embeddings)
    THEN LET score == ScoreOfIndex(i, other) IN
         IF score >= bestScore
         THEN nearestLoop(other, i + 1, score, i)
         ELSE nearestLoop(other, i + 1, bestScore, iNearest)
    ELSE Ref(listItems, iNearest)

nearest(other) == nearestLoop(other, 0, MIN_VALUE, -1)

\* mutant: the threshold test is strict
searchAcceptsAbove(score, minScore) == score > minScore

\* the test of line 130
searchAccepts(score, minScore) == score >= minScore

\* The result carries the collection after the scan and the add calls made.
RECURSIVE searchLoop(_, _, _, _)
searchLoop(r, other, minScore, i) ==
    IF i < Len(embeddings) /\ r.h.err = NoErr
    THEN LET score == ScoreOfIndex(i, other) IN
         IF searchAccepts(score, minScore)
         THEN searchLoop(
                [h |-> add(r.h, listItems[i + 1], score),
                 fed |-> Append(r.fed, [value |-> listItems[i + 1],
                                        score |-> score])],
                other, minScore, i + 1)
         ELSE searchLoop(r, other, minScore, i + 1)
    ELSE r

search(other, matches, minScore) ==
    searchLoop([h |-> matches, fed |-> <<>>], other,
               OrDefault(minScore, MIN_VALUE), 0)

searchTopN(other, topNCount, minScore) ==
    search(other, NewTopN(topNCount, <<>>),
           Arg(OrDefault(minScore, MIN_VALUE)))

\* mutant: the threshold test is strict
similarAcceptsAbove(score, minScore) == score > minScore

\* the test of line 113
similarAccepts(score, minScore) == score >= minScore

\* The generator object of similar(): nothing runs until it is resumed.
\* atCall and dirty are not part of the object: they record the length of
\* the list when similar() was called and whether add ran since.
similar(other, minScore) ==
    [state |-> "suspended", other |-> other, minScore |-> minScore,
     i |-> 0, dirty |-> FALSE, atCall |-> Len(embeddings)]

NoGenerator ==
    [state |-> "none", other |-> 1, minScore |-> 0, i |-> 0, dirty |-> FALSE,
     atCall |-> 0]

\* Resuming the generator: the loop runs on from index g.i to the next
\* yield or to the end.  out is what the resumption yields, if anything.
RECURSIVE similarResume(_)
similarResume(g) ==
    IF g.i < Len(embeddings)
    THEN LET score == ScoreOfIndex(g.i, g.other) IN
         IF similarAccepts(score, g.minScore)
         THEN [g |-> [g EXCEPT !.i = @ + 1],
               out |-> <<[value |-> listItems[g.i + 1], score |-> score]>>]
         ELSE similarResume([g EXCEPT !.i = @ + 1])
    ELSE [g |-> [g EXCEPT !.state = "done"], out |-> <<>>]

\* the minScore arguments tried
MinScores == {-One, 0}

\* ---------------------------------------------------------- EventHistory
\* An EventHistory in the middle of a method.  createDate is left out: no
\* method reads it.
NewEventHistory == [history |-> <<>>, seqNumber |-> 0]

append(hs, data) ==
    LET n == hs.seqNumber + 1 IN
    [history |-> Append(hs.history, [seqNumber |-> n, data |-> data]),
     seqNumber |-> n]

\* mutant: emptying the history starts the numbering again
trimResetsCounter(hs, cnt) ==
    IF cnt >= Len(hs.history)
    THEN [hs EXCEPT !.history = <<>>, !.seqNumber = 0]
    ELSE [hs EXCEPT !.history = SubSeq(@, cnt + 1, Len(@))]

\* trim(count): splice(0, count) removes the first count elements
trim(hs, cnt) ==
    IF cnt >= Len(hs.history)
    THEN [hs EXCEPT !.history = <<>>]
    ELSE [hs EXCEPT !.history = SubSeq(@, cnt + 1, Len(@))]

\* an optional boolean argument left out
OmittedFlag == [given |-> FALSE, value |-> FALSE]

\* The generator object of allEvents(): nothing runs until it is resumed.
\* dirty and out are not part of the object: they record whether append or
\* trim ran since the call and what has been yielded.
allEvents(orderByNewest) ==
    [state |-> "created", newest |-> OrDefault(orderByNewest, TRUE),
     i |-> 0, dirty |-> FALSE, out |-> <<>>]

NoEventGenerator ==
    [state |-> "none", newest |-> TRUE, i |-> 0, dirty |-> FALSE,
     out |-> <<>>]

\* this._history[i]: undefined, written as an event without a number, when
\* i is outside the array
NoEvent == [seqNumber |-> 0, data |-> 0]
EventAt(hist, i) ==
    IF i >= 0 /\ i + 1 <= Len(hist) THEN hist[i + 1] ELSE NoEvent

\* Resuming the generator: the first resumption starts the loop, a later
\* one steps the index; then the loop test is made on the array as it is
\* now and this._history[i] is yielded, or the generator ends.
allEventsResume(g, hist) ==
    LET i == IF g.state = "created"
             THEN (IF g.newest THEN Len(hist) - 1 ELSE 0)
             ELSE (IF g.newest THEN g.i - 1 ELSE g.i + 1)
        go == IF g.newest THEN i >= 0 ELSE i < Len(hist)
    IN IF go
       THEN [g EXCEPT !.state = "suspended", !.i = i,
                      !.out = Append(@, EventAt(hist, i))]
       ELSE [g EXCEPT !.state = "done", !.i = i]

\* --------------------------------------------------------------- actions
Min(a, b) == IF a < b THEN a ELSE b

Cur == Heap(items, count, maxCount, objs)

Snapshot ==
    [items |-> items, count |-> count, maxCount |-> maxCount, objs |-> objs,
     called |-> called]

Install(h) ==
    /\ items' = h.items
    /\ count' = h.count
    /\ objs' = h.objs
    /\ maxCount' = h.maxCount

NoCall == [op |-> "new", value |-> NoValue, score |-> 0, err |-> NoErr]

NoListCall ==
    [op |-> "new", other |-> Undefined, minScore |-> Omitted,
     n |-> 0, ret |-> Undefined, err |-> NoErr]

InitTopN(mc) ==
    LET h == NewTopN(mc, <<>>) IN
    /\ items = h.items
    /\ count = h.count
    /\ maxCount = h.maxCount
    /\ objs = h.objs
    /\ prev = [items |-> h.items, count |-> h.count,
               maxCount |-> h.maxCount, objs |-> h.objs, called |-> {}]
    /\ added = <<>>
    /\ called = {}
    /\ last = NoCall

InitList ==
    /\ listItems = <<>>
    /\ embeddings = <<>>
    /\ emb = [id \in EmbIds |-> NewEmbedding(RawVectors[id])]
    /\ vlast = NoListCall
    /\ gen = NoGenerator
    /\ yielded = <<>>

NoHistoryCall == [op |-> "new", arg |-> 0, before |-> <<>>]

InitHistory ==
    /\ history = NewEventHistory.history
    /\ seqNumber = NewEventHistory.seqNumber
    /\ appended = <<>>
    /\ hlast = NoHistoryCall
    /\ hgen = NoEventGenerator

CallIds == 1..NumCalls

NoCalls == [c \in CallIds |-> [pc |-> "idle", resp |-> "none", trace |-> <<>>]]

InitChatBot(generator) ==
    /\ InitHistory
    /\ settings = [embeddingGenerator |-> generator]
    /\ calls = NoCalls

InitChat == InitChatBot(FALSE)

Init ==
    /\ \E mc \in 1..MaxCap : InitTopN(mc)
    /\ InitList
    /\ InitChat

\* ---- TopNCollection
\* The collection never looks into a value, so the k-th add call carries the
\* value k: the retained pairs can be told apart.
Add ==
    /\ Len(added) < MaxAdds
    /\ \E value \in {Len(added) + 1}, score \in Scores :
         \E h \in {add(Cur, value, score)} :
         /\ Install(h)
         /\ added' = Append(added, [value |-> value, score |-> score])
         /\ last' = [op |-> "add", value |-> value, score |-> score,
                     err |-> h.err]
    /\ prev' = Snapshot
    /\ UNCHANGED <<called, listVars, genVars>>
    /\ UNCHANGED chatVars

SortDescending ==
    /\ \E h \in {sortDescending(Cur)} :
         /\ Install(h)
         /\ last' = [op |-> "sortDescending", value |-> NoValue, score |-> 0,
                     err |-> h.err]
    /\ prev' = Snapshot
    /\ called' = called \cup {"sortDescending"}
    /\ UNCHANGED <<added, listVars, genVars>>
    /\ UNCHANGED chatVars

Clear ==
    /\ Install(clear(Cur))
    /\ last' = [op |-> "clear", value |-> NoValue, score |-> 0, err |-> NoErr]
    /\ prev' = Snapshot
    /\ called' = called \cup {"clear"}
    /\ UNCHANGED <<added, listVars, genVars>>
    /\ UNCHANGED chatVars

Next == Add \/ SortDescending \/ Clear

Spec == Init /\ [][Next]_vars

\* ---- VectorizedList
\* add(item, embedding): embedding is one of the callers' objects or
\* undefined.  The list never looks into an item, so the k-th stored item is
\* the payload k: the stored positions can be told apart in the results.
\* mutant: the item is stored at the front of the list
VAddFront ==
    /\ Len(listItems) < MaxItems
    /\ \E item \in {Len(listItems) + 1}, embedding \in EmbIds \cup {Undefined} :
         IF exists(embedding)
         THEN /\ listItems' = <<item>> \o listItems
              /\ emb' = [emb EXCEPT ![embedding] = normalize(@)]
              /\ embeddings' = Append(embeddings, embedding)
              /\ vlast' = [NoListCall EXCEPT !.op = "add", !.other = embedding,
                                             !.ret = item]
              /\ gen' = IF gen.state # "none"
                        THEN [gen EXCEPT !.dirty = TRUE] ELSE gen
         ELSE /\ vlast' = [NoListCall EXCEPT !.op = "add",
                                             !.err = InvalidArgument]
              /\ UNCHANGED <<listItems, emb, embeddings, gen>>
    /\ UNCHANGED <<heapVars, yielded>>
    /\ UNCHANGED chatVars

\* mutant: the item is pushed before the embedding is validated
VAddPushFirst ==
    /\ Len(listItems) < MaxItems
    /\ \E item \in {Len(listItems) + 1}, embedding \in EmbIds \cup {Undefined} :
         IF exists(embedding)
         THEN /\ listItems' = Append(listItems, item)
              /\ emb' = [emb EXCEPT ![embedding] = normalize(@)]
              /\ embeddings' = Append(embeddings, embedding)
              /\ vlast' = [NoListCall EXCEPT !.op = "add", !.other = embedding,
                                             !.ret = item]
              /\ gen' = IF gen.state # "none"
                        THEN [gen EXCEPT !.dirty = TRUE] ELSE gen
         ELSE /\ listItems' = Append(listItems, item)
              /\ vlast' = [NoListCall EXCEPT !.op = "add",
                                             !.err = InvalidArgument]
              /\ UNCHANGED <<emb, embeddings, gen>>
    /\ UNCHANGED <<heapVars, yielded>>
    /\ UNCHANGED chatVars

VAdd ==
    /\ Len(listItems) < MaxItems
    /\ \E item \in {Len(listItems) + 1}, embedding \in EmbIds \cup {Undefined} :
         IF exists(embedding)
         THEN /\ listItems' = Append(listItems, item)
              /\ emb' = [emb EXCEPT ![embedding] = normalize(@)]
              /\ embeddings' = Append(embeddings, embedding)
              /\ vlast' = [NoListCall EXCEPT !.op = "add", !.other = embedding,
                                             !.ret = item]
              /\ gen' = IF gen.state # "none"
                        THEN [gen EXCEPT !.dirty = TRUE] ELSE gen
         ELSE /\ vlast' = [NoListCall EXCEPT !.op = "add",
                                             !.err = InvalidArgument]
              /\ UNCHANGED <<listItems, emb, embeddings, gen>>
    /\ UNCHANGED <<heapVars, yielded>>
    /\ UNCHANGED chatVars

\* searchTopN: the returned collection becomes the collection of the model
SearchTopN ==
    /\ \E other \in EmbIds, n \in 1..MaxCap,
          minScore \in {Arg(m) : m \in MinScores} \cup {Omitted} :
         \E r \in {searchTopN(other, n, minScore)} :
         LET fresh == NewTopN(n, <<>>)
         IN /\ Install(r.h)
            /\ added' = r.fed
            /\ prev' = [items |-> fresh.items, count |-> fresh.count,
                        maxCount |-> fresh.maxCount, objs |-> fresh.objs,
                        called |-> {}]
            /\ vlast' = [NoListCall EXCEPT !.op = "searchTopN",
                                           !.other = other, !.n = n,
                                           !.minScore = minScore,
                                           !.err = r.h.err]
    /\ called' = {}
    /\ last' = NoCall
    /\ UNCHANGED <<listItems, embeddings, emb, genVars>>
    /\ UNCHANGED chatVars

SearchNext == VAdd \/ SearchTopN

InitSearch == InitTopN(1) /\ InitList /\ InitChat

SpecSearch == InitSearch /\ [][SearchNext]_vars

\* ---- the linear scans: nearest and the generator of similar()
Nearest ==
    /\ \E other \in EmbIds :
         vlast' = [NoListCall EXCEPT !.op = "nearest", !.other = other,
                                     !.ret = nearest(other)]
    /\ UNCHANGED <<heapVars, listItems, embeddings, emb, genVars>>
    /\ UNCHANGED chatVars

SimilarCall ==
    /\ \E other \in EmbIds, minScore \in MinScores :
         /\ gen' = similar(other, minScore)
         /\ vlast' = [NoListCall EXCEPT !.op = "similar", !.other = other,
                                        !.minScore = Arg(minScore)]
    /\ yielded' = <<>>
    /\ UNCHANGED <<heapVars, listItems, embeddings, emb>>
    /\ UNCHANGED chatVars

SimilarNextCall ==
    /\ gen.state = "suspended"
    /\ LET r == similarResume(gen) IN
         /\ gen' = r.g
         /\ yielded' = yielded \o r.out
    /\ vlast' = [NoListCall EXCEPT !.op = "next", !.other = gen.other,
                                   !.minScore = Arg(gen.minScore)]
    /\ UNCHANGED <<heapVars, listItems, embeddings, emb>>
    /\ UNCHANGED chatVars

ScanNext == VAdd \/ Nearest \/ SimilarCall \/ SimilarNextCall

SpecScan == InitSearch /\ [][ScanNext]_vars

\* ---- a collection used again after clear()
\* clear() is entered in the log of add calls as a pair without a value,
\* so that the add calls made since the clear can be read off the log
ClearMark == [value |-> NoValue, score |-> 0]

\* The calls of one reuse: adds, one clear(), then adds and searches into
\* the collection.
ClearOnce ==
    /\ "clear" \notin called
    /\ Install(clear(Cur))
    /\ added' = Append(added, ClearMark)
    /\ last' = [op |-> "clear", value |-> NoValue, score |-> 0, err |-> NoErr]
    /\ prev' = Snapshot
    /\ called' = called \cup {"clear"}
    /\ UNCHANGED <<listVars, genVars>>
    /\ UNCHANGED chatVars

\* search(other, matches, minScore) with the collection as matches
SearchInto ==
    /\ Len(added) < MaxAdds
    /\ \E other \in EmbIds,
          minScore \in {Arg(m) : m \in MinScores} \cup {Omitted} :
         \E r \in {search(other, Cur, minScore)} :
         /\ Install(r.h)
         /\ added' = added \o r.fed
         /\ last' = [op |-> "search", value |-> NoValue, score |-> 0,
                     err |-> r.h.err]
    /\ prev' = Snapshot
    /\ UNCHANGED <<called, listVars, genVars>>
    /\ UNCHANGED chatVars

\* The list the searches run on: n add calls have stored the payloads
\* 1..n with the callers' embeddings 1..n, normalized by add
InitListOf(n) ==
    /\ listItems = [k \in 1..n |-> k]
    /\ embeddings = [k \in 1..n |-> k]
    /\ emb = [id \in EmbIds |->
                IF id <= n THEN normalize(NewEmbedding(RawVectors[id]))
                ELSE NewEmbedding(RawVectors[id])]
    /\ vlast = NoListCall
    /\ gen = NoGenerator
    /\ yielded = <<>>

InitReuse ==
    /\ \E mc \in 1..MaxCap : InitTopN(mc)
    /\ InitListOf(Min(MaxItems, NumEmb))
    /\ InitChat

ReuseNext == Add \/ ClearOnce \/ SearchInto

SpecReuse == InitReuse /\ [][ReuseNext]_vars

\* ---- Embedding: normalize and euclideanLength on the callers' objects
\* The vectors the first embedding is built from: every non-zero vector
\* with components up to MaxComp, most of which do not scale exactly
InputVectors ==
    {v \in [x : (-MaxComp)..MaxComp, y : (-MaxComp)..MaxComp] :
       v.x # 0 \/ v.y # 0}

InitEmbedding ==
    /\ InitTopN(1)
    /\ listItems = <<>>
    /\ embeddings = <<>>
    /\ \E v \in InputVectors :
         emb = [id \in EmbIds |->
                  NewEmbedding(IF id = 1 THEN v ELSE RawVectors[id])]
    /\ vlast = NoListCall
    /\ gen = NoGenerator
    /\ yielded = <<>>
    /\ InitChat

\* ret records the object as it was before the call
Normalize ==
    /\ \E id \in EmbIds :
         /\ emb' = [emb EXCEPT ![id] = normalize(@)]
         /\ vlast' = [NoListCall EXCEPT !.op = "normalize", !.other = id,
                                        !.ret = emb[id]]
    /\ UNCHANGED <<heapVars, listItems, embeddings, genVars>>
    /\ UNCHANGED chatVars

EuclideanLength ==
    /\ \E id \in EmbIds :
         vlast' = [NoListCall EXCEPT !.op = "euclideanLength", !.other = id,
                                     !.ret = euclideanLength(emb[id])]
    /\ UNCHANGED <<heapVars, listItems, embeddings, emb, genVars>>
    /\ UNCHANGED chatVars

EmbeddingNext == Normalize \/ EuclideanLength

SpecEmbedding == InitEmbedding /\ [][EmbeddingNext]_vars

\* ---- EventHistory
CurHistory == [history |-> history, seqNumber |-> seqNumber]

InstallHistory(hs) ==
    /\ history' = hs.history
    /\ seqNumber' = hs.seqNumber

Touched(g) == IF g.state # "none" THEN [g EXCEPT !.dirty = TRUE] ELSE g

Datas == 1..NumData

HistoryAppend ==
    /\ seqNumber < MaxAppends
    /\ \E data \in Datas :
         \E hs \in {append(CurHistory, data)} :
         /\ InstallHistory(hs)
         /\ appended' = Append(appended, hs.history[Len(hs.history)])
         /\ hlast' = [op |-> "append", arg |-> data, before |-> history]
    /\ hgen' = Touched(hgen)
    /\ UNCHANGED <<heapVars, listVars, genVars, callVars>>

HistoryTrim ==
    /\ \E c \in 0..MaxTrim :
         /\ InstallHistory(trim(CurHistory, c))
         /\ hlast' = [op |-> "trim", arg |-> c, before |-> history]
    /\ hgen' = Touched(hgen)
    /\ UNCHANGED <<heapVars, listVars, genVars, callVars, appended>>

AllEvents ==
    /\ \E orderByNewest \in {Arg(TRUE), Arg(FALSE), OmittedFlag} :
         /\ hgen' = allEvents(orderByNewest)
         /\ hlast' = [op |-> "allEvents", arg |-> 0, before |-> history]
    /\ UNCHANGED <<heapVars, listVars, genVars, callVars, history, seqNumber,
                   appended>>

AllEventsNext ==
    /\ hgen.state \in {"created", "suspended"}
    /\ hgen' = allEventsResume(hgen, history)
    /\ hlast' = [op |-> "next", arg |-> 0, before |-> history]
    /\ UNCHANGED <<heapVars, listVars, genVars, callVars, history, seqNumber,
                   appended>>

HistoryNext == HistoryAppend \/ HistoryTrim \/ AllEvents \/ AllEventsNext

SpecHistory == InitSearch /\ [][HistoryNext]_vars

\* ---- Chat.runCompletion on a ChatBot
\* Each call is a coroutine: an action runs it from one await to the next.
\* The texts (context, prompt, response) are left out: the only branch
\* that depends on one is the test of line 305, kept in resp.  Every hook
\* and client call may throw, which ends the call as "failed".

\* what getResponse gives: no hook in the pipeline (undefined), a hook
\* giving undefined or '', a hook giving a text
Responses == {"absent", "empty", "text"}

\* mutant: the client is asked whatever getResponse gave
NeedsCompletionAlways(resp) == TRUE

\* !responseText (line 305)
NeedsCompletion(resp) == resp # "text"

Message(c, kind) == [call |-> c, kind |-> kind]

\* the call c goes on to pc, or fails, having entered the stages
Enter(c, stages, pc) ==
    calls' = [calls EXCEPT ![c].trace = @ \o stages, ![c].pc = pc]

\* this.history.append(message) (line 477)
HistoryPush(message) ==
    \E hs \in {append(CurHistory, message)} :
      /\ InstallHistory(hs)
      /\ appended' = Append(appended, hs.history[Len(hs.history)])
      /\ hlast' = [op |-> "append", arg |-> 0, before |-> history]
      /\ hgen' = Touched(hgen)

\* line 295: startingRequest runs inside the call of runCompletion
StartingRequest ==
    /\ \E c \in CallIds, ok \in BOOLEAN :
         /\ calls[c].pc = "idle"
         /\ Enter(c, <<"startingRequest">>,
                  IF ok THEN "awaitStartingRequest" ELSE "failed")
    /\ UNCHANGED <<heapVars, listVars, genVars, histVars, settings>>

\* line 297: collectContext awaits the hook of the pipeline, then reads the
\* history for the context
CollectContext ==
    /\ \E c \in CallIds, ok \in BOOLEAN :
         /\ calls[c].pc = "awaitStartingRequest"
         /\ Enter(c, <<"collectContext">>,
                  IF ok THEN "awaitCollectContext" ELSE "failed")
    /\ UNCHANGED <<heapVars, listVars, genVars, histVars, settings>>

\* lines 299-303: buildPrompt, then getResponse is called and awaited
BuildPrompt ==
    /\ \E c \in CallIds, built \in BOOLEAN, ok \in BOOLEAN,
          resp \in Responses :
         /\ calls[c].pc = "awaitCollectContext"
         /\ IF ~built
            THEN Enter(c, <<"buildPrompt">>, "failed")
            ELSE IF ~ok
            THEN Enter(c, <<"buildPrompt", "getResponse">>, "failed")
            ELSE calls' = [calls EXCEPT
                   ![c].trace = @ \o <<"buildPrompt", "getResponse">>,
                   ![c].resp = resp,
                   ![c].pc = "awaitGetResponse"]
    /\ UNCHANGED <<heapVars, listVars, genVars, histVars, settings>>

\* lines 305-311: the client is asked when getResponse gave nothing
GetTextCompletion ==
    /\ \E c \in CallIds, ok \in BOOLEAN :
         /\ calls[c].pc = "awaitGetResponse"
         /\ NeedsCompletion(calls[c].resp)
         /\ Enter(c, <<"getTextCompletion">>,
                  IF ok THEN "awaitGetTextCompletion" ELSE "failed")
    /\ UNCHANGED <<heapVars, listVars, genVars, histVars, settings>>

\* lines 312-322: the response message is built and post-processed
OnResponse ==
    /\ \E c \in CallIds, ok \in BOOLEAN :
         /\ \/ calls[c].pc = "awaitGetTextCompletion"
            \/ /\ calls[c].pc = "awaitGetResponse"
               /\ ~NeedsCompletion(calls[c].resp)
         /\ Enter(c, <<"onResponse">>,
                  IF ok THEN "awaitOnResponse" ELSE "failed")
    /\ UNCHANGED <<heapVars, listVars, genVars, histVars, settings>>

\* The await a call is suspended at before it appends a message, the
\* stage of the append and the await after it
AppendSteps ==
    {[from |-> "awaitOnResponse", kind |-> "request",
      stage |-> "appendToHistory(request)",
      embedding |-> "awaitEmbedding(request)",
      to |-> "awaitAppendToHistory(request)"],
     [from |-> "awaitAppendToHistory(request)", kind |-> "response",
      stage |-> "appendToHistory(response)",
      embedding |-> "awaitEmbedding(response)",
      to |-> "done"]}

\* lines 325-326 and 470-478: appendToHistory(message) with no embedding
\* generator appends at once; with one it first awaits createEmbedding
AppendToHistory ==
    /\ \E c \in CallIds, a \in AppendSteps, ok \in BOOLEAN :
         /\ calls[c].pc = a.from
         /\ IF settings.embeddingGenerator
            THEN /\ Enter(c, <<a.stage>>,
                          IF ok THEN a.embedding ELSE "failed")
                 /\ UNCHANGED histVars
            ELSE /\ Enter(c, <<a.stage>>, a.to)
                 /\ HistoryPush(Message(c, a.kind))
    /\ UNCHANGED <<heapVars, listVars, genVars, settings>>

\* lines 472-477: createEmbedding has answered, the message is appended
EmbeddingCreated ==
    /\ \E c \in CallIds, a \in AppendSteps, ok \in BOOLEAN :
         /\ calls[c].pc = a.embedding
         /\ IF ok
            THEN /\ Enter(c, <<>>, a.to)
                 /\ HistoryPush(Message(c, a.kind))
            ELSE /\ Enter(c, <<>>, "failed")
                 /\ UNCHANGED histVars
    /\ UNCHANGED <<heapVars, listVars, genVars, settings>>

ChatNext ==
    \/ StartingRequest
    \/ CollectContext
    \/ BuildPrompt
    \/ GetTextCompletion
    \/ OnResponse
    \/ AppendToHistory
    \/ EmbeddingCreated

InitRunCompletion ==
    /\ InitTopN(1)
    /\ InitList
    /\ \E generator \in BOOLEAN : InitChatBot(generator)

SpecChat == InitRunCompletion /\ [][ChatNext]_vars

\* ------------------------------------------------- reading the collection
\* Only add has been called since construction
Fresh == called = {}

\* The pair stored at heap position i of a collection (i in 1..count)
PairAt(it, o, i) == o[Ref(it, i)]

\* All positions 1..c hold a pair
Occupied(it, c) == \A i \in 1..c : Ref(it, i) # Undefined

\* How many of the positions 1..c hold the pair p
PairCount(it, o, c, p) ==
    Cardinality({i \in 1..c : Ref(it, i) # Undefined /\ PairAt(it, o, i) = p})

\* The pairs held in positions 1..c
PairSet(it, o, c) ==
    {PairAt(it, o, i) : i \in {j \in 1..c : Ref(it, j) # Undefined}}

\* Positions 1..c of two collections hold the same multiset of pairs
SamePairs(it1, o1, c1, it2, o2, c2) ==
    /\ c1 = c2
    /\ \A p \in PairSet(it1, o1, c1) \cup PairSet(it2, o2, c2) :
         PairCount(it1, o1, c1, p) = PairCount(it2, o2, c2, p)

ScoreAt(i) == PairAt(items, objs, i).score

\* TopNCollection.get(index)
get(index) == PairAt(items, objs, index + 1)


\* ------------------------------------------------------------------ C1
\* C1: after add calls only on a fresh collection, every occupied position
\* i has score(i) <= score(2i) and score(i) <= score(2i+1) where those
\* children are within count, and position 1 holds the minimum score.
HeapOrdered ==
    /\ Occupied(items, count)
    /\ \A i \in 1..count :
         /\ 2 * i <= count => ScoreAt(i) <= ScoreAt(2 * i)
         /\ 2 * i + 1 <= count => ScoreAt(i) <= ScoreAt(2 * i + 1)
    /\ \A j \in 1..count : ScoreAt(1) <= ScoreAt(j)

C1_HeapInvariant == Fresh => HeapOrdered

\* a full heap of three distinct scores, reached through an eviction
C1_Witness ==
    /\ Fresh
    /\ count = 3
    /\ Len(added) > 3
    /\ last.op = "add"
    /\ prev.count = 3
    /\ items # prev.items
    /\ ScoreAt(1) < ScoreAt(2)
    /\ ScoreAt(2) # ScoreAt(3)

\* ------------------------------------------------------------------ C2
AddedCount(s) == Cardinality({k \in 1..Len(added) : added[k].score = s})
RetainedCount(s) == Cardinality({i \in 1..count : ScoreAt(i) = s})
AddedScores == {added[k].score : k \in 1..Len(added)}

\* C2: after M add calls on a fresh collection, count = min(M, maxCount)
\* and the retained scores are the min(M, maxCount) highest scores added:
\* they are a sub-multiset of the added scores and no dropped score is
\* higher than a retained one.
C2_BoundedRetention ==
    Fresh =>
      /\ count = Min(Len(added), maxCount)
      /\ Occupied(items, count)
      /\ \A i \in 1..count : ScoreAt(i) \in AddedScores
      /\ \A s \in AddedScores : RetainedCount(s) <= AddedCount(s)
      /\ \A s, t \in AddedScores :
           (RetainedCount(s) < AddedCount(s) /\ RetainedCount(t) > 0) => s <= t

\* more candidates than capacity: the two lowest came first and both were
\* evicted by higher ones
C2_Witness ==
    /\ Fresh
    /\ maxCount = 2
    /\ Len(added) = 4
    /\ added[1].score < added[3].score
    /\ added[2].score < added[4].score
    /\ count = 2
    /\ ScoreAt(1) = added[3].score
    /\ ScoreAt(2) = added[4].score
    /\ {PairAt(items, objs, 1).value, PairAt(items, objs, 2).value} = {3, 4}

\* ------------------------------------------------------------------ C3
\* The last call was add on a full, add-only collection with a score equal
\* to the score at top
TieAtCapacity ==
    /\ last.op = "add"
    /\ prev.called = {}
    /\ called = {}
    /\ prev.count = prev.maxCount
    /\ last.score = PairAt(prev.items, prev.objs, 1).score

\* C3 as claimed: an add at capacity whose score equals top.score leaves
\* the set of retained (value, score) pairs as it was.
C3_TieKeepsMembership ==
    TieAtCapacity =>
      PairSet(items, objs, count) = PairSet(prev.items, prev.objs, prev.count)

\* C3 as the code has it: an add at capacity whose score equals top.score
\* is accepted.  The pair that was at top is evicted and (value, score)
\* takes its place, so count and the multiset of retained scores stay the
\* same while the new pair is retained and one copy of the old top is not.
C3_TieReplacesTop ==
    TieAtCapacity =>
      LET old == PairAt(prev.items, prev.objs, 1)
          new == [value |-> last.value, score |-> last.score]
          before(p) == PairCount(prev.items, prev.objs, prev.count, p)
          after(p) == PairCount(items, objs, count, p)
      IN /\ last.err = NoErr
         /\ count = prev.count
         /\ \A s \in Scores :
              Cardinality({i \in 1..count : ScoreAt(i) = s})
                = Cardinality({i \in 1..prev.count :
                                 PairAt(prev.items, prev.objs, i).score = s})
         /\ after(new) >= 1
         /\ \A p \in PairSet(prev.items, prev.objs, prev.count) \cup {new} :
              after(p) = before(p)
                         + (IF p = new THEN 1 ELSE 0)
                         - (IF p = old THEN 1 ELSE 0)

\* a tie at capacity where the newcomer carries another value than the top
C3_Witness ==
    /\ TieAtCapacity
    /\ prev.count = 2
    /\ last.value # PairAt(prev.items, prev.objs, 1).value
    /\ PairSet(items, objs, count) # PairSet(prev.items, prev.objs, prev.count)

\* ------------------------------------------------------------------ C4
\* The last call was sortDescending on a collection built by add calls only
SortedAfterAdds == last.op = "sortDescending" /\ prev.called = {}

\* C4: sortDescending after add calls only keeps count, orders the
\* positions by descending score (get(i).score >= get(i+1).score) and
\* keeps the multiset of (value, score) pairs.
C4_SortDescending ==
    SortedAfterAdds =>
      /\ last.err = NoErr
      /\ count = prev.count
      /\ Occupied(items, count)
      /\ \A i \in 0..(count - 2) : get(i).score >= get(i + 1).score
      /\ SamePairs(items, objs, count, prev.items, prev.objs, prev.count)

\* a full collection of three that the sort had to reorder
C4_Witness ==
    /\ SortedAfterAdds
    /\ count = 3
    /\ Len(added) > 3
    /\ get(0).score > get(2).score
    /\ items # prev.items

\* a partially filled collection: only the occupied prefix is sorted
C4_WitnessPartial ==
    /\ SortedAfterAdds
    /\ maxCount = 3
    /\ count = 2
    /\ get(0).score > get(1).score

\* ------------------------------------------------------------------ C5
\* C5: after clear() count is 0, the storage holds only the sentinel and
\* maxCount is unchanged.
C5_ClearResets ==
    last.op = "clear" =>
      /\ count = 0
      /\ Len(items) = 1
      /\ items = <<1>>
      /\ maxCount = prev.maxCount

\* ------------------------------------------------------------------ C6
\* the array slots after the sentinel that hold a pair
StoredPairs == Cardinality({k \in 2..Len(items) : items[k] # Undefined})

\* C6: whatever add, sortDescending and clear calls are made,
\* 0 <= count <= maxCount and the storage never holds more than maxCount
\* pairs besides the sentinel.
C6_OccupancyBound ==
    /\ 0 <= count
    /\ count <= maxCount
    /\ StoredPairs <= maxCount

\* ------------------------------------------------------------------ C7
StoredIdx == 0..(Len(listItems) - 1)

\* C7: on a non-empty list nearest(query) returns a stored item whose
\* similarity to the query is the maximum over all stored embeddings,
\* whatever the sign of the scores.
C7_NearestIsMax ==
    (vlast.op = "nearest" /\ Len(listItems) > 0) =>
      \E i \in StoredIdx :
        /\ vlast.ret = listItems[i + 1]
        /\ \A j \in StoredIdx :
             ScoreOfIndex(j, vlast.other) <= ScoreOfIndex(i, vlast.other)

\* ------------------------------------------------------------------ C8
\* C8: searchTopN without a minScore feeds every stored (item, score) pair
\* to the collection, whatever its score.
C8_DefaultFeedsAll ==
    (vlast.op = "searchTopN" /\ ~vlast.minScore.given) =>
      added = [k \in 1..Len(listItems) |->
                 [value |-> listItems[k],
                  score |-> ScoreOfIndex(k - 1, vlast.other)]]

\* ------------------------------------------------------------------ C9
\* the stored indices whose score reaches m
Qualifying(other, m) == {i \in StoredIdx : ScoreOfIndex(i, other) >= m}

\* C9: searchTopN(query, n, minScore) returns a collection of capacity n,
\* heap-ordered over 1..count, with count = min(n, Q) for the Q items whose
\* score is >= minScore; it retains the min(n, Q) highest scoring of them
\* and nothing below minScore.
C9_SearchTopN ==
    (vlast.op = "searchTopN" /\ vlast.minScore.given) =>
      LET other == vlast.other
          Q == Qualifying(other, vlast.minScore.value)
          kept == {i \in Q : \E k \in 1..count :
                     PairAt(items, objs, k) =
                       [value |-> listItems[i + 1],
                        score |-> ScoreOfIndex(i, other)]}
      IN /\ vlast.err = NoErr
         /\ maxCount = vlast.n
         /\ HeapOrdered
         /\ count = Min(vlast.n, Cardinality(Q))
         /\ \A k \in 1..count : ScoreAt(k) >= vlast.minScore.value
         /\ Cardinality(kept) = count
         /\ \A i \in kept, j \in Q \ kept :
              ScoreOfIndex(j, other) <= ScoreOfIndex(i, other)

\* three stored items, one below the threshold, one evicted from a
\* collection of capacity 1
C9_Witness ==
    /\ vlast.op = "searchTopN"
    /\ vlast.minScore.given
    /\ Len(listItems) = 3
    /\ Cardinality(Qualifying(vlast.other, vlast.minScore.value)) = 2
    /\ vlast.n = 1
    /\ count = 1
    /\ Len(added) = 2
    /\ added[1].score < added[2].score
    /\ ScoreAt(1) = added[2].score

BestScore(other) ==
    CHOOSE s \in {ScoreOfIndex(i, other) : i \in StoredIdx} :
      \A j \in StoredIdx : ScoreOfIndex(j, other) <= s

\* the stored indices that reach it
Tied(other) == {i \in StoredIdx : ScoreOfIndex(i, other) = BestScore(other)}

\* C11: when several stored embeddings share the maximum score for the
\* query, nearest returns the item at the highest index among them, never
\* an earlier tied item.
C11_NearestTieBreak ==
    (vlast.op = "nearest" /\ Len(listItems) > 0) =>
      LET tied == Tied(vlast.other) IN
      Cardinality(tied) > 1 =>
        \E i \in tied :
          /\ \A j \in tied : j <= i
          /\ vlast.ret = listItems[i + 1]

\* ------------------------------------------------------------------ C12
\* C12: the sequence produced by one call of similar ranges over the list
\* as it was at the call: no item added after the call is yielded.  A
\* fresh call starts at index 0 with nothing yielded.
C12_SimilarSnapshot ==
    /\ gen.state # "none" =>
         \A k \in 1..Len(yielded) :
           \E i \in 0..(gen.atCall - 1) : yielded[k].value = listItems[i + 1]
    /\ vlast.op = "similar" => (gen.i = 0 /\ yielded = <<>>)

\* ------------------------------------------------------------------ C13
\* A step leaves both sequences alone or is a successful add appending its
\* item and its embedding
AppendOnly ==
    \/ listItems' = listItems /\ embeddings' = embeddings
    \/ /\ vlast'.op = "add"
       /\ vlast'.err = NoErr
       /\ listItems' = Append(listItems, vlast'.ret)
       /\ embeddings' = Append(embeddings, vlast'.other)

\* C13: through add calls (successful or failing) and queries the items and
\* the embeddings have equal length, and the sequences change only by a
\* successful add appending its item and its embedding at the same
\* position: nothing stored is reordered, replaced or removed.
C13_ParallelSequences ==
    [][/\ Len(listItems) = Len(embeddings)
       /\ Len(listItems') = Len(embeddings')
       /\ AppendOnly]_vars

\* two stored pairs with different embeddings, a query and a failing add
\* behind them
C13_Witness ==
    /\ Len(listItems) = 2
    /\ Len(embeddings) = 2
    /\ embeddings[1] # embeddings[2]
    /\ gen.state = "done"
    /\ gen.dirty
    /\ vlast.op = "add"
    /\ vlast.err = InvalidArgument

\* ------------------------------------------------------------------ C14
\* C14: every stored embedding has isNormalized true, and what add stores
\* is the caller's object itself, normalized in place: the caller's
\* embedding is the scaled vector with the flag set.
C14_StoredNormalized ==
    /\ \A k \in 1..Len(embeddings) : isNormalized(emb[embeddings[k]])
    /\ (vlast.op = "add" /\ vlast.err = NoErr) =>
         /\ embeddings[Len(embeddings)] = vlast.other
         /\ isNormalized(emb[vlast.other])
         /\ emb[vlast.other].x
              = normalize32(NewEmbedding(RawVectors[vlast.other])).x
         /\ emb[vlast.other].y
              = normalize32(NewEmbedding(RawVectors[vlast.other])).y

\* the caller's third embedding (-6, 8) was added and is now (-3, 4)
C14_Witness ==
    /\ vlast.op = "add"
    /\ vlast.err = NoErr
    /\ vlast.other = 3
    /\ Len(embeddings) = 2
    /\ emb[embeddings[2]] = [x |-> -3, y |-> 4, normalized |-> TRUE]
    /\ ~isNormalized(emb[2])

\* ------------------------------------------------------------------ C15
\* C15: add with an undefined embedding fails with InvalidArgument and
\* leaves the items, the embeddings and the callers' objects as they were.
C15_AddUndefinedFails ==
    [][(vlast'.op = "add" /\ vlast'.other = Undefined) =>
         /\ vlast'.err = InvalidArgument
         /\ listItems' = listItems
         /\ embeddings' = embeddings
         /\ emb' = emb]_vars

\* a failing add on a list that holds two pairs
C15_Witness ==
    /\ vlast.op = "add"
    /\ vlast.other = Undefined
    /\ vlast.err = InvalidArgument
    /\ Len(listItems) = 2
    /\ Len(embeddings) = 2

\* ------------------------------------------------------------------ C16
\* The last call was sortDescending on a collection whose count was 0
SortedEmpty == last.op = "sortDescending" /\ prev.count = 0

\* The collection is as it was before the last call
StructureUnchanged ==
    /\ items = prev.items
    /\ count = prev.count
    /\ objs = prev.objs
    /\ maxCount = prev.maxCount

\* C16 as claimed: sortDescending on a collection with count = 0 fails
\* with the empty-collection error of removeTop and leaves the structure
\* unchanged.
C16_SortEmptyFails ==
    SortedEmpty => (last.err = ArgumentException /\ StructureUnchanged)

\* C16 as the code has it: sortDescending on a collection with count = 0
\* returns normally, since its loop never calls removeTop, and leaves the
\* structure unchanged; removeTop itself would refuse that collection.
C16_SortEmptyNoOp ==
    SortedEmpty =>
      /\ last.err = NoErr
      /\ StructureUnchanged
      /\ removeTop(Cur).h = Throw(Cur, ArgumentException)

\* a new collection of capacity 2, sorted before anything was added
C16_Witness ==
    /\ SortedEmpty
    /\ maxCount = 2
    /\ added = <<>>
    /\ prev.called = {}
    /\ items = <<1>>
    /\ last.err = NoErr

\* ------------------------------------------------------------------ C17
\* C17: normalize() on an embedding that is already normalized changes
\* nothing, so two calls leave the components and the flag that one call
\* leaves; after normalize() the flag is set and euclideanLength() returns
\* exactly 1.0, whatever the components would give.
C17_NormalizeIdempotent ==
    /\ vlast.op = "normalize" =>
         /\ isNormalized(emb[vlast.other])
         /\ isNormalized(vlast.ret) => emb[vlast.other] = vlast.ret
         /\ euclideanLength(emb[vlast.other]) = Unit
    /\ (vlast.op = "euclideanLength" /\ isNormalized(emb[vlast.other])) =>
         vlast.ret = Unit

\* a second normalize() of the vector (1, 1), whose scaled components
\* (5, 5) do not have length 1.0 when computed again
C17_Witness ==
    /\ vlast.op = "normalize"
    /\ vlast.other = 1
    /\ vlast.ret = [x |-> 5, y |-> 5, normalized |-> TRUE]
    /\ emb[1] = vlast.ret
    /\ euclideanLength32(emb[1]) # Unit

\* ------------------------------------------------------------------ C18
\* The last call was add on a full collection with a score below the
\* score at top
RejectedAdd ==
    /\ last.op = "add"
    /\ prev.count = prev.maxCount
    /\ Ref(prev.items, 1) # Undefined
    /\ last.score < PairAt(prev.items, prev.objs, 1).score

\* C18: an add at capacity with score < top.score returns without error and
\* leaves count, every stored pair and every position of the storage as
\* they were.
C18_RejectedAddNoOp ==
    RejectedAdd => (last.err = NoErr /\ StructureUnchanged)

\* three adds on a collection of capacity 2, the third below both retained
C18_Witness ==
    /\ RejectedAdd
    /\ prev.called = {}
    /\ maxCount = 2
    /\ Len(added) = 3
    /\ added[1].score > added[3].score
    /\ added[2].score > added[3].score
    /\ PairSet(items, objs, count) = {added[1], added[2]}

\* ------------------------------------------------------------------ C19
\* The collection before the last call was full and heap-ordered
PrevHeapOrdered ==
    /\ prev.count = prev.maxCount
    /\ Occupied(prev.items, prev.count)
    /\ \A i \in 1..prev.count :
         /\ 2 * i <= prev.count =>
              PairAt(prev.items, prev.objs, i).score
                <= PairAt(prev.items, prev.objs, 2 * i).score
         /\ 2 * i + 1 <= prev.count =>
              PairAt(prev.items, prev.objs, i).score
                <= PairAt(prev.items, prev.objs, 2 * i + 1).score

\* The last call was add on such a collection with a score above the score
\* at top
EvictingAdd ==
    /\ last.op = "add"
    /\ PrevHeapOrdered
    /\ last.score > PairAt(prev.items, prev.objs, 1).score

\* C19: an add with score > top.score on a full heap-ordered collection
\* keeps count at maxCount, and the retained pairs are the previous ones
\* less one copy of the pair that was at position 1 plus the new pair:
\* every other pair is retained as often as before, value and score
\* unchanged.
C19_EvictsMinimum ==
    EvictingAdd =>
      LET old == PairAt(prev.items, prev.objs, 1)
          new == [value |-> last.value, score |-> last.score]
          before(p) == PairCount(prev.items, prev.objs, prev.count, p)
          after(p) == PairCount(items, objs, count, p)
      IN /\ last.err = NoErr
         /\ count = prev.count
         /\ count = maxCount
         /\ Occupied(items, count)
         /\ \A p \in PairSet(prev.items, prev.objs, prev.count)
                       \cup PairSet(items, objs, count) \cup {new} :
              after(p) = before(p)
                         + (IF p = new THEN 1 ELSE 0)
                         - (IF p = old THEN 1 ELSE 0)

\* a full collection of three whose minimum is evicted by a higher score
C19_Witness ==
    /\ EvictingAdd
    /\ prev.called = {}
    /\ maxCount = 3
    /\ Len(added) = 4
    /\ PairAt(prev.items, prev.objs, 1) = added[1]
    /\ PairSet(items, objs, count) = {added[2], added[3], added[4]}

\* ------------------------------------------------------------------ C20
\* The collection a sequence of add calls gives when applied to a newly
\* constructed collection of capacity mc
RECURSIVE ReplayFrom(_, _)
ReplayFrom(h, seq) ==
    IF seq = <<>>
    THEN h
    ELSE ReplayFrom(add(h, Head(seq).value, Head(seq).score), Tail(seq))

Replay(seq, mc) == ReplayFrom(NewTopN(mc, <<>>), seq)

\* the add calls logged after the clear
RECURSIVE SinceClear(_)
SinceClear(log) ==
    IF log = <<>> \/ log[Len(log)] = ClearMark
    THEN <<>>
    ELSE Append(SinceClear(SubSeq(log, 1, Len(log) - 1)), log[Len(log)])

\* C20: after clear() on a collection built by add calls, the add calls
\* that follow, made directly or by search, end without error and leave
\* the count and the retained pairs that the same calls leave on a new
\* collection of the same maxCount.
C20_ReuseAfterClear ==
    "clear" \in called =>
      LET f == Replay(SinceClear(added), maxCount) IN
      /\ last.err = NoErr
      /\ count = f.count
      /\ SamePairs(items, objs, count, f.items, f.objs, f.count)

\* ------------------------------------------------------------------ C21
Reversed(seq) == [k \in 1..Len(seq) |-> seq[Len(seq) + 1 - k]]

\* C21: after any append and trim calls the retained events are a
\* contiguous suffix of all events ever appended; the k-th event ever
\* appended has seqNumber k, so the numbers increase strictly with the
\* index and are never used twice, whatever was trimmed; trim(k) removes
\* exactly the min(k, count) oldest events; and allEvents run to its end on
\* the history yields the retained events newest first (strictly
\* decreasing seqNumber) by default or when asked, else oldest first.
C21_HistoryOrdering ==
    /\ \E k \in 0..Len(appended) :
         history = SubSeq(appended, k + 1, Len(appended))
    /\ \A k \in 1..Len(appended) : appended[k].seqNumber = k
    /\ seqNumber = Len(appended)
    /\ \A i, j \in 1..Len(history) :
         i < j => history[i].seqNumber < history[j].seqNumber
    /\ hlast.op = "trim" =>
         history = SubSeq(hlast.before,
                          Min(hlast.arg, Len(hlast.before)) + 1,
                          Len(hlast.before))
    /\ (hgen.state = "done" /\ ~hgen.dirty) =>
         /\ hgen.out = IF hgen.newest THEN Reversed(history) ELSE history
         /\ \A i, j \in 1..Len(hgen.out) :
              i < j => IF hgen.newest
                       THEN hgen.out[i].seqNumber > hgen.out[j].seqNumber
                       ELSE hgen.out[i].seqNumber < hgen.out[j].seqNumber

\* four events appended, the two oldest trimmed, the other two iterated
\* newest first
C21_Witness ==
    /\ hgen.state = "done"
    /\ ~hgen.dirty
    /\ hgen.newest
    /\ Len(appended) = 4
    /\ Len(history) = 2
    /\ history[1].seqNumber = 3
    /\ Len(hgen.out) = 2
    /\ hgen.out[1].seqNumber = 4
    /\ hgen.out[2].seqNumber = 3

\* ------------------------------------------------------------------ C22
\* C22: whatever the overlap of the runCompletion calls on one ChatBot,
\* the history holds the request of every completed call immediately
\* followed by the response of that call.
C22_RequestResponseAdjacent ==
    \A c \in CallIds :
      calls[c].pc = "done" =>
        \E k \in 1..(Len(history) - 1) :
          /\ history[k].data = Message(c, "request")
          /\ history[k + 1].data = Message(c, "response")

\* ------------------------------------------------------------------ C23
\* The stages of a call in the order claimed, for what getResponse gave;
\* up to getResponse when it has not answered
StagesFor(resp) ==
    <<"startingRequest", "collectContext", "buildPrompt", "getResponse">>
    \o (IF resp = "none" THEN <<>>
        ELSE (IF resp \in {"absent", "empty"}
              THEN <<"getTextCompletion">> ELSE <<>>)
             \o <<"onResponse", "appendToHistory(request)",
                  "appendToHistory(response)">>)

IsPrefix(a, b) == Len(a) <= Len(b) /\ a = SubSeq(b, 1, Len(a))

\* the kinds of the messages the call c has appended, in order
KindsOf(c) ==
    LET mine == SelectSeq(appended, LAMBDA e : e.data.call = c)
    IN [k \in 1..Len(mine) |-> mine[k].data.kind]

\* C23: the stages a runCompletion call has entered are always a prefix of
\* startingRequest, collectContext, buildPrompt, getResponse,
\* getTextCompletion exactly when getResponse was absent or gave nothing,
\* onResponse, appendToHistory(request), appendToHistory(response); a
\* completed call has entered them all and appended its request, then its
\* response; a call that has not entered appendToHistory(request), failed
\* or not, has appended nothing.
C23_StageOrder ==
    \A c \in CallIds :
      /\ IsPrefix(calls[c].trace, StagesFor(calls[c].resp))
      /\ IsPrefix(KindsOf(c), <<"request", "response">>)
      /\ calls[c].pc = "done" =>
           /\ calls[c].trace = StagesFor(calls[c].resp)
           /\ KindsOf(c) = <<"request", "response">>
      /\ (\A k \in 1..Len(calls[c].trace) :
            calls[c].trace[k] # "appendToHistory(request)") =>
           KindsOf(c) = <<>>
      /\ (\A k \in 1..Len(calls[c].trace) :
            calls[c].trace[k] # "appendToHistory(response)") =>
           Len(KindsOf(c)) <= 1

\* one call completed through the client, the other through a text from
\* getResponse failed in onResponse and appended nothing
C23_Witness ==
    /\ calls[1].pc = "done"
    /\ calls[1].resp = "empty"
    /\ Len(calls[1].trace) = 8
    /\ calls[1].trace[5] = "getTextCompletion"
    /\ calls[2].pc = "failed"
    /\ calls[2].resp = "text"
    /\ calls[2].trace[Len(calls[2].trace)] = "onResponse"
    /\ Len(calls[2].trace) = 5
    /\ Len(history) = 2
    /\ KindsOf(2) = <<>>

====
